---- MODULE Spec2Model ----
(***************************************************************************)
(* Graph construction policy of the ResNet backbone                        *)
(* (static/paddlex/cv/nets/resnet.py): which layers, with which shapes,    *)
(* learning-rate multipliers and frozen flags, ResNet.__call__ emits for a *)
(* configuration.                                                          *)
(*                                                                         *)
(* Conventions.  Learning rates are in units of 0.1 (1.0 is 10).  A        *)
(* tensor handle is a record [isVar, id, ch, size]: id is the handle's     *)
(* identity inside one call, ch is shape[1], size the spatial extent.      *)
(* An object is a record of the fields set so far; an object on which no   *)
(* field is set has an empty DOMAIN.  A Python exception ends the call:    *)
(* the builder carries it in err and every later step is skipped.          *)
(***************************************************************************)
EXTENDS Integers, Sequences, FiniteSets, TLC

\* ------------------------------------------------------------- bounds
\* number of times __call__ is invoked on one object
MaxCalls == 2
\* longest feature_maps list passed to the constructor
MaxFeatureMaps == 2
\* largest dcn_v2_stages / nonlocal_stages / gcb_stages list passed
MaxAuxStages == 1

\* ---------------------------------------------------- program constants
\* ParamAttr(name=...) without learning_rate: the framework default 1.0
DefaultLearningRate == 10
\* nonlocal_mod = 1000
NonlocalModOff == 1000
\* self._c1_out_chan_num = 64
C1OutChanNum == 64

VARIABLES args, input, self, pc, ncalls, res, feature_maps, res_endpoints, b, stop_gradient, stage_log, ret, first

vars == <<args, input, self, pc, ncalls, res, feature_maps, res_endpoints, b, stop_gradient, stage_log, ret, first>>

\* ------------------------------------------------------------ helpers
Variable(id, ch, size) == [isVar |-> TRUE, id |-> id, ch |-> ch, size |-> size]

NotAVariable == [isVar |-> FALSE, id |-> 0, ch |-> 0, size |-> 0]

getattr(obj, name, default) == IF name \in DOMAIN obj THEN obj[name] ELSE default

set(seq) == {seq[k] : k \in 1..Len(seq)}

RECURSIVE max(_)
max(S) == LET x == CHOOSE x \in S : TRUE IN IF S = {x} THEN x ELSE LET m == max(S \ {x}) IN IF x > m THEN x ELSE m

range(lo, hi) == [k \in 1..(IF hi > lo THEN hi - lo ELSE 0) |-> lo + k - 1]

\* names bound in the module namespace: the imports and the two classes
ModuleGlobals == {"absolute_import", "division", "print_function", "math", "OrderedDict", "paddle", "fluid", "ParamAttr", "Variable", "L2Decay", "Constant", "Integral", "NameAdapter", "ResNet", "ResNetC5"}

\* the layers emitted by one call: conv+norm layers, residual blocks
NewProgram == [convs |-> <<>>, blocks |-> <<>>, next_id |-> 1, err |-> "none", stage |-> 0, block |-> 0, role |-> "none"]

Raise(bld, exc) == [bld EXCEPT !.err = exc]

\* fluid.layers.conv2d / deformable_conv output extent
conv2d_size(n, filter_size, stride, padding) == (n + 2 * padding - filter_size) \div stride + 1

\* fluid.layers.pool2d
pool2d(bld, x, pool_size, pool_stride, pool_padding, ceil_mode) ==
    LET span == x.size + 2 * pool_padding - pool_size
        size == IF ceil_mode THEN (span + pool_stride - 1) \div pool_stride + 1 ELSE span \div pool_stride + 1
    IN  IF bld.err # "none" THEN [b |-> bld, out |-> x]
        ELSE [b |-> [bld EXCEPT !.next_id = @ + 1], out |-> Variable(bld.next_id, x.ch, size)]

\* ------------------------------------------------------ ResNet._conv_norm
_conv_norm(obj, bld, x, num_filters, filter_size, stride, act, dcn_v2) ==
    IF bld.err # "none" THEN [b |-> bld, out |-> x]
    ELSE IF obj.curr_stage >= Len(obj.lr_mult_list) THEN [b |-> Raise(bld, "IndexError"), out |-> x]
    ELSE
    LET lr_mult == obj.lr_mult_list[obj.curr_stage + 1]
        padding == (filter_size - 1) \div 2
        weight_lr == IF ~dcn_v2 THEN lr_mult ELSE DefaultLearningRate
        norm_lr == IF obj.freeze_norm THEN 0 ELSE lr_mult
        global_stats == IF obj.norm_type \in {"bn", "sync_bn"} THEN obj.freeze_norm ELSE FALSE
        out == Variable(bld.next_id, num_filters, conv2d_size(x.size, filter_size, stride, padding))
        layer == [stage |-> bld.stage, block |-> bld.block, role |-> bld.role,
                  num_filters |-> num_filters, filter_size |-> filter_size, stride |-> stride,
                  act |-> act, dcn_v2 |-> dcn_v2, lr_index |-> obj.curr_stage,
                  weight_lr |-> weight_lr, norm_type |-> obj.norm_type,
                  scale_lr |-> norm_lr, offset_lr |-> norm_lr,
                  use_global_stats |-> global_stats,
                  scale_stop_gradient |-> obj.freeze_norm,
                  offset_stop_gradient |-> obj.freeze_norm,
                  in_id |-> x.id, out_id |-> out.id]
    IN  [b |-> [bld EXCEPT !.convs = Append(@, layer), !.next_id = @ + 1], out |-> out]

\* ------------------------------------------------------- ResNet._shortcut
\* mutant: the average pool of variant d also on the first stage
shortcut_pools_ignoring_is_first(obj, is_first) == obj.variant = "d"

\* if max_pooling_in_short_cut and not is_first
shortcut_pools(obj, is_first) == obj.variant = "d" /\ ~is_first

\* the projection of the shortcut: self._conv_norm(input, ch_out, k, s, name=name)
shortcut_conv(obj, p, ch_out, filter_size, stride) == _conv_norm(obj, p.b, p.out, ch_out, filter_size, stride, "None", FALSE)

_shortcut(obj, bld, x, ch_out, stride, is_first) ==
    LET ch_in == x.ch
        std_senet == getattr(obj, "std_senet", FALSE)
        bs == [bld EXCEPT !.role = "branch1"]
    IN  IF bld.err # "none" THEN [b |-> bld, out |-> x]
        ELSE IF ch_in # ch_out \/ stride # 1 \/ (obj.layers < 50 /\ is_first)
        THEN IF std_senet
             THEN shortcut_conv(obj, [b |-> bs, out |-> x], ch_out, IF is_first THEN 1 ELSE 3, stride)
             ELSE IF shortcut_pools(obj, is_first)
                  THEN shortcut_conv(obj, pool2d(bs, x, 2, 2, 0, TRUE), ch_out, 1, 1)
                  ELSE shortcut_conv(obj, [b |-> bs, out |-> x], ch_out, 1, stride)
        ELSE [b |-> bld, out |-> x]

\* the call add_gc_block(residual, ...): the name is looked up in the module
add_gc_block(bld, residual) ==
    IF bld.err # "none" THEN [b |-> bld, out |-> residual, applied |-> FALSE]
    ELSE IF "add_gc_block" \in ModuleGlobals
    THEN [b |-> [bld EXCEPT !.next_id = @ + 1], out |-> Variable(bld.next_id, residual.ch, residual.size), applied |-> TRUE]
    ELSE [b |-> Raise(bld, "NameError"), out |-> residual, applied |-> FALSE]

\* the call add_space_nonlocal(conv, dim_in, dim_in, name, int(dim_in / 2))
add_space_nonlocal(bld, conv, dim_in, dim_out, dim_inner) ==
    IF bld.err # "none" THEN [b |-> bld, out |-> conv, applied |-> FALSE]
    ELSE IF "add_space_nonlocal" \in ModuleGlobals
    THEN [b |-> [bld EXCEPT !.next_id = @ + 1], out |-> Variable(bld.next_id, dim_out, conv.size), applied |-> TRUE]
    ELSE [b |-> Raise(bld, "NameError"), out |-> conv, applied |-> FALSE]

\* fluid.layers.elementwise_add(x=short, y=residual, act='relu')
elementwise_add(bld, x, y) ==
    IF bld.err # "none" THEN [b |-> bld, out |-> x]
    ELSE [b |-> [bld EXCEPT !.next_id = @ + 1], out |-> Variable(bld.next_id, x.ch, x.size)]

\* what a block function hands back to layer_warp: the builder, the sum,
\* and the two operands of the elementwise add
block_result(sum, kind, short, residual, gcb_applied, expand) ==
    [b |-> sum.b, out |-> sum.out, kind |-> kind, short |-> short, residual |-> residual, gcb_applied |-> gcb_applied, expand |-> expand]

\* dcn_v2=(i == 1 and dcn_v2)
conv_is_deformable(i, dcn_v2) == i = 1 /\ dcn_v2

\* the loop of bottleneck over conv_def, from index i (0-based); r is
\* the builder and the residual so far
RECURSIVE bottleneck_convs(_, _, _, _, _)
bottleneck_convs(obj, r, conv_def, i, dcn_v2) ==
    IF i >= Len(conv_def) THEN r
    ELSE bottleneck_convs(obj, _conv_norm(obj, [r.b EXCEPT !.role = conv_def[i + 1].name], r.out, conv_def[i + 1].c, conv_def[i + 1].k, conv_def[i + 1].s, conv_def[i + 1].act, conv_is_deformable(i, dcn_v2)), conv_def, i + 1, dcn_v2)

\* bottleneck from "if gcb:" on
bottleneck_add(short, gc, expand) == block_result(elementwise_add(gc.b, short, gc.out), "bottleneck", short, gc.out, gc.applied, expand)

bottleneck_gcb(residual, sh, gcb, expand) ==
    bottleneck_add(sh.out, IF gcb THEN add_gc_block(sh.b, residual) ELSE [b |-> sh.b, out |-> residual, applied |-> FALSE], expand)

\* bottleneck from "short = self._shortcut(" on
bottleneck_short(obj, rr, x, ch_out, stride, is_first, gcb, expand) ==
    bottleneck_gcb(rr.out, _shortcut(obj, rr.b, x, ch_out, stride, is_first), gcb, expand)

\* ------------------------------------------------------ ResNet.bottleneck
bottleneck(obj, bld, x, num_filters_arg, stride, is_first, dcn_v2, gcb) ==
    LET stride1 == IF obj.variant = "a" THEN stride ELSE 1
        stride2 == IF obj.variant = "a" THEN 1 ELSE stride
        groups == getattr(obj, "groups", 1)
        group_width == getattr(obj, "group_width", -1)
        expand == IF groups = 1 THEN 4 ELSE IF groups * group_width = 256 THEN 1 ELSE 2
        num_filters == IF groups = 1 \/ groups * group_width = 256 THEN num_filters_arg ELSE num_filters_arg \div 2
        std_senet == getattr(obj, "std_senet", FALSE)
        conv_def == << [c |-> IF std_senet THEN num_filters \div 2 ELSE num_filters, k |-> 1, s |-> stride1, act |-> "relu", g |-> 1, name |-> "branch2a"],
                       [c |-> num_filters, k |-> 3, s |-> stride2, act |-> "relu", g |-> groups, name |-> "branch2b"],
                       [c |-> num_filters * expand, k |-> 1, s |-> 1, act |-> "None", g |-> 1, name |-> "branch2c"] >>
    IN  bottleneck_short(obj, bottleneck_convs(obj, [b |-> bld, out |-> x], conv_def, 0, dcn_v2), x, num_filters * expand, stride, is_first, gcb, expand)

\* ------------------------------------------------------ ResNet.basicblock
basicblock_add(residual, sh) == block_result(elementwise_add(sh.b, sh.out, residual), "basicblock", sh.out, residual, FALSE, 1)

\* basicblock from "short = self._shortcut(" on
basicblock_short(obj, conv1, x, num_filters, stride, is_first) ==
    basicblock_add(conv1.out, _shortcut(obj, conv1.b, x, num_filters, stride, is_first))

\* basicblock from "conv1 = self._conv_norm(" on
basicblock_conv1(obj, conv0, x, num_filters, stride, is_first) ==
    basicblock_short(obj, _conv_norm(obj, [conv0.b EXCEPT !.role = "branch2b"], conv0.out, num_filters, 3, 1, "None", FALSE), x, num_filters, stride, is_first)

basicblock(obj, bld, x, num_filters, stride, is_first, dcn_v2, gcb) ==
    IF dcn_v2 # FALSE \/ gcb # FALSE
    THEN block_result([b |-> Raise(bld, "AssertionError"), out |-> x], "basicblock", x, x, FALSE, 1)
    ELSE basicblock_conv1(obj, _conv_norm(obj, [bld EXCEPT !.role = "branch2a"], x, num_filters, 3, stride, "relu", FALSE), x, num_filters, stride, is_first)

\* ------------------------------------------------------ ResNet.layer_warp
\* block_func(...) of layer_warp: the method layers_cfg holds
block_func(obj, bld, x, num_filters, stride, is_first, dcn_v2, gcb) ==
    IF obj.layers_cfg[obj.layers].block_func = "basicblock"
    THEN basicblock(obj, bld, x, num_filters, stride, is_first, dcn_v2, gcb)
    ELSE bottleneck(obj, bld, x, num_filters, stride, is_first, dcn_v2, gcb)

\* mutant: stage 2 down-samples like the later stages
block_stride_in_every_stage(stage_num, i) == IF i = 0 THEN 2 ELSE 1

\* stride=2 if i == 0 and stage_num != 2 else 1
block_stride(stage_num, i) == IF i = 0 /\ stage_num # 2 THEN 2 ELSE 1

\* is_first as the loop body sees it for block i
block_is_first(obj, stage_num, i) == IF obj.layers < 50 THEN (i = 0 /\ stage_num = 2) ELSE (stage_num = 2)

\* nonlocal_mod
block_nonlocal_mod(obj, stage_num) ==
    IF stage_num \in obj.nonlocal_stages
    THEN (IF stage_num = 4 THEN obj.nonlocal_mod_cfg[obj.layers] ELSE 2)
    ELSE NonlocalModOff

\* the loop of layer_warp over range(count), from index i; r is the
\* builder and conv so far
RECURSIVE layer_warp_blocks(_, _, _, _, _)

\* the end of the loop body: the block is in the graph
layer_warp_next(obj, r, stage_num, count, i, blk, nl) ==
    layer_warp_blocks(obj, [b |-> [nl.b EXCEPT !.blocks = Append(@, [blk EXCEPT !.nonlocal = nl.applied])], out |-> nl.out], stage_num, count, i + 1)

\* the loop body from "# add non local model" on
layer_warp_nonlocal(obj, r, stage_num, count, i, conv, nonlocal_mod) ==
    layer_warp_next(obj, r, stage_num, count, i,
        [stage |-> stage_num, index |-> i, kind |-> r.kind, num_filters |-> obj.stage_filters[stage_num - 2 + 1],
         stride |-> block_stride(stage_num, i), is_first |-> block_is_first(obj, stage_num, i),
         dcn_v2 |-> stage_num \in obj.dcn_v2_stages, gcb |-> stage_num \in obj.gcb_stages,
         gcb_applied |-> r.gcb_applied, expand |-> r.expand,
         input |-> conv, short |-> r.short, residual |-> r.residual, out |-> r.out,
         nonlocal |-> FALSE, err |-> r.b.err],
        IF r.b.err = "none" /\ i % nonlocal_mod = nonlocal_mod - 1
        THEN add_space_nonlocal(r.b, r.out, r.out.ch, r.out.ch, r.out.ch \div 2)
        ELSE [b |-> r.b, out |-> r.out, applied |-> FALSE])

layer_warp_blocks(obj, r, stage_num, count, i) ==
    IF i >= count \/ r.b.err # "none" THEN r
    ELSE layer_warp_nonlocal(obj,
            block_func(obj, [r.b EXCEPT !.stage = stage_num, !.block = i], r.out,
                       obj.stage_filters[stage_num - 2 + 1], block_stride(stage_num, i),
                       block_is_first(obj, stage_num, i), stage_num \in obj.dcn_v2_stages, stage_num \in obj.gcb_stages),
            stage_num, count, i, r.out, block_nonlocal_mod(obj, stage_num))

layer_warp(obj, bld, x, stage_num) ==
    IF bld.err # "none" THEN [b |-> bld, out |-> x]
    ELSE IF stage_num \notin {2, 3, 4, 5} THEN [b |-> Raise(bld, "AssertionError"), out |-> x]
    ELSE layer_warp_blocks(obj, [b |-> bld, out |-> x], stage_num, obj.layers_cfg[obj.layers].stages[stage_num - 2 + 1], 0)

\* -------------------------------------------------------- ResNet.c1_stage
\* the loop of c1_stage over conv_def, from (1-based) position k
RECURSIVE c1_convs(_, _, _, _)
c1_convs(obj, r, conv_def, k) ==
    IF k > Len(conv_def) THEN r
    ELSE c1_convs(obj, _conv_norm(obj, [r.b EXCEPT !.role = conv_def[k].name], r.out, conv_def[k].c, conv_def[k].k, conv_def[k].s, "relu", FALSE), conv_def, k + 1)

\* output = fluid.layers.pool2d(input, pool_size=3, pool_stride=2, pool_padding=1, pool_type='max')
c1_pool(r) == pool2d(r.b, r.out, 3, 2, 1, FALSE)

c1_stage(obj, bld, x) ==
    LET out_chan == obj._c1_out_chan_num
        conv_def == IF obj.variant \in {"c", "d"}
                    THEN << [c |-> out_chan \div 2, k |-> 3, s |-> 2, name |-> "conv1_1"],
                            [c |-> out_chan \div 2, k |-> 3, s |-> 1, name |-> "conv1_2"],
                            [c |-> out_chan, k |-> 3, s |-> 1, name |-> "conv1_3"] >>
                    ELSE << [c |-> out_chan, k |-> 7, s |-> 2, name |-> "conv1"] >>
    IN  c1_pool(c1_convs(obj, [b |-> [bld EXCEPT !.stage = 1, !.block = 0], out |-> x], conv_def, 1))

\* ------------------------------------------------------- ResNet.__init__
\* self.layers_cfg
layers_cfg == (18 :> [stages |-> <<2, 2, 2, 2>>, block_func |-> "basicblock"])
           @@ (34 :> [stages |-> <<3, 4, 6, 3>>, block_func |-> "basicblock"])
           @@ (50 :> [stages |-> <<3, 4, 6, 3>>, block_func |-> "bottleneck"])
           @@ (101 :> [stages |-> <<3, 4, 23, 3>>, block_func |-> "bottleneck"])
           @@ (152 :> [stages |-> <<3, 8, 36, 3>>, block_func |-> "bottleneck"])
           @@ (200 :> [stages |-> <<3, 12, 48, 3>>, block_func |-> "bottleneck"])

\* self.nonlocal_mod_cfg
nonlocal_mod_cfg == (50 :> 2) @@ (101 :> 5) @@ (152 :> 8) @@ (200 :> 12)

\* a feature_maps argument: an Integral or a list
IntArg(k) == [isInt |-> TRUE, n |-> k, list |-> <<>>]

ListArg(l) == [isInt |-> FALSE, n |-> 0, list |-> l]

\* the default arguments of ResNet.__init__ (num_classes: {} is None)
ResNetDefaults == [cls |-> "ResNet", layers |-> 50, freeze_at |-> 0, norm_type |-> "bn", freeze_norm |-> FALSE,
                   variant |-> "b", feature_maps |-> ListArg(<<2, 3, 4, 5>>), dcn_v2_stages |-> {},
                   nonlocal_stages |-> {}, gcb_stages |-> {}, num_classes |-> {},
                   lr_mult_list |-> <<10, 10, 10, 10, 10>>]

\* if isinstance(feature_maps, Integral): feature_maps = [feature_maps]
wrap_feature_maps(a) == IF a.feature_maps.isInt THEN <<a.feature_maps.n>> ELSE a.feature_maps.list

\* mutant: freeze_at = 5 rejected
init_asserts_freeze_at_below_5(a) ==
    /\ a.layers \in {18, 34, 50, 101, 152, 200}
    /\ a.variant \in {"a", "b", "c", "d"}
    /\ 0 <= a.freeze_at /\ a.freeze_at < 5
    /\ Len(wrap_feature_maps(a)) > 0
    /\ a.norm_type \in {"bn", "sync_bn", "affine_channel"}
    /\ ~(Cardinality(a.nonlocal_stages) > 0 /\ a.layers < 50)
    /\ Len(a.lr_mult_list) = 5

\* the assert statements of ResNet.__init__
init_asserts(a) ==
    /\ a.layers \in {18, 34, 50, 101, 152, 200}
    /\ a.variant \in {"a", "b", "c", "d"}
    /\ 0 <= a.freeze_at /\ a.freeze_at <= 5
    /\ Len(wrap_feature_maps(a)) > 0
    /\ a.norm_type \in {"bn", "sync_bn", "affine_channel"}
    /\ ~(Cardinality(a.nonlocal_stages) > 0 /\ a.layers < 50)
    /\ Len(a.lr_mult_list) = 5

\* the assignments of ResNet.__init__
init_fields(a) ==
    [layers |-> a.layers, freeze_at |-> a.freeze_at, norm_type |-> a.norm_type,
     freeze_norm |-> a.freeze_norm, variant |-> a.variant, _model_type |-> "ResNet",
     feature_maps |-> wrap_feature_maps(a), dcn_v2_stages |-> a.dcn_v2_stages,
     layers_cfg |-> layers_cfg, stage_filters |-> <<64, 128, 256, 512>>,
     _c1_out_chan_num |-> C1OutChanNum, nonlocal_stages |-> a.nonlocal_stages,
     nonlocal_mod_cfg |-> nonlocal_mod_cfg, gcb_stages |-> a.gcb_stages,
     num_classes |-> a.num_classes, lr_mult_list |-> a.lr_mult_list, curr_stage |-> 0]

\* the object once the constructor has returned
NoCall == [exc |-> "none", kind |-> "none", items |-> <<>>, out |-> NotAVariable]

Outcome(retv, bld, log, stopped) == [ret |-> retv, convs |-> bld.convs, blocks |-> bld.blocks, stage_log |-> log, stop_gradient |-> stopped]

NoOutcome == Outcome(NoCall, NewProgram, <<>>, {})

ResNet__init__ ==
    /\ pc = "new"
    /\ args.cls = "ResNet"
    /\ IF init_asserts(args)
       THEN self' = init_fields(args) /\ pc' = "idle"
       ELSE self' = self /\ pc' = "init_failed"
    /\ UNCHANGED <<args, input, ncalls, res, feature_maps, res_endpoints, b, stop_gradient, stage_log, ret, first>>

\* ----------------------------------------------------- ResNetC5.__init__
ResNetC5__init__ ==
    /\ pc = "new"
    /\ args.cls = "ResNetC5"
    /\ LET a == [ResNetDefaults EXCEPT !.layers = args.layers, !.freeze_at = args.freeze_at,
                                       !.norm_type = args.norm_type, !.freeze_norm = args.freeze_norm,
                                       !.variant = args.variant, !.feature_maps = args.feature_maps]
           base == init_fields(a)
       IN  IF init_asserts(a)
           THEN /\ self' = [f \in DOMAIN base \cup {"severed_head"} |-> IF f = "severed_head" THEN TRUE ELSE base[f]]
                /\ pc' = "idle"
           ELSE self' = self /\ pc' = "init_failed"
    /\ UNCHANGED <<args, input, ncalls, res, feature_maps, res_endpoints, b, stop_gradient, stage_log, ret, first>>

\* --------------------------------------------------------- ResNet.__call__
\* OrderedDict(pairs): a later pair with a key already present replaces the value in place
RECURSIVE OrderedDict(_)
OrderedDict(pairs) ==
    IF pairs = <<>> THEN <<>>
    ELSE LET d == OrderedDict(SubSeq(pairs, 1, Len(pairs) - 1))
             p == pairs[Len(pairs)]
         IN  IF \E k \in DOMAIN d : d[k].key = p.key
             THEN [k \in DOMAIN d |-> IF d[k].key = p.key THEN p ELSE d[k]]
             ELSE Append(d, p)

\* 'res{}_sum'.format(k)
res_sum(k) == "res" \o ToString(k) \o "_sum"

\* the call ends, by return or by exception: control is back at the caller
finish(retv, bld, log, stopped) ==
    /\ ret' = retv
    /\ b' = bld
    /\ stage_log' = log
    /\ stop_gradient' = stopped
    /\ ncalls' = ncalls + 1
    /\ pc' = "idle"
    /\ first' = IF ncalls = 0 THEN Outcome(retv, bld, log, stopped) ELSE first

raised(exc) == [exc |-> exc, kind |-> "none", items |-> <<>>, out |-> NotAVariable]

\* __call__ once the asserts have passed; c1 is the stem (or the input, severed)
call_enter(severed_head, c1, log) ==
    IF c1.b.err # "none"
    THEN /\ finish(raised(c1.b.err), c1.b, log, {})
         /\ UNCHANGED <<res, feature_maps, res_endpoints>>
    ELSE /\ res' = c1.out
         /\ feature_maps' = IF ~severed_head THEN range(2, max(set(self.feature_maps)) + 1) ELSE self.feature_maps
         /\ res_endpoints' = << >>
         /\ b' = c1.b
         /\ stage_log' = log
         /\ stop_gradient' = {}
         /\ pc' = "loop"
         /\ UNCHANGED <<ncalls, ret, first>>

call_stem(severed_head, c1) ==
    call_enter(severed_head, c1,
               IF ~severed_head
               THEN << [stage |-> 1, out |-> c1.out, first_block |-> 1, last_block |-> 0, err |-> c1.b.err] >>
               ELSE << >>)

\* __call__ up to the loop: the asserts and the stem
__call__ ==
    /\ pc = "idle"
    /\ ncalls < MaxCalls
    /\ IF ~input.isVar \/ (set(self.feature_maps) \ {1, 2, 3, 4, 5}) # {}
       THEN /\ finish(raised("AssertionError"), Raise(NewProgram, "AssertionError"), <<>>, {})
            /\ UNCHANGED <<res, feature_maps, res_endpoints>>
       ELSE call_stem(getattr(self, "severed_head", FALSE),
                      IF ~getattr(self, "severed_head", FALSE) THEN c1_stage(self, NewProgram, input) ELSE [b |-> NewProgram, out |-> input])
    /\ UNCHANGED <<args, input, self>>

\* the loop body after res = self.layer_warp(res, i), which gave r
call_stage(i, r, log) ==
    IF r.b.err # "none"
    THEN /\ finish(raised(r.b.err), r.b, log, stop_gradient)
         /\ UNCHANGED <<res, feature_maps, res_endpoints>>
    ELSE /\ res' = r.out
         /\ res_endpoints' = IF i \in set(self.feature_maps) THEN Append(res_endpoints, r.out) ELSE res_endpoints
         /\ stop_gradient' = IF self.freeze_at >= i THEN stop_gradient \cup {r.out.id} ELSE stop_gradient
         /\ feature_maps' = Tail(feature_maps)
         /\ b' = r.b
         /\ stage_log' = log
         /\ UNCHANGED <<pc, ncalls, ret, first>>

call_layer_warp(i, r) ==
    call_stage(i, r, Append(stage_log, [stage |-> i, out |-> r.out, first_block |-> Len(b.blocks) + 1, last_block |-> Len(r.b.blocks), err |-> r.b.err]))

\* one iteration of: for i in feature_maps
__call__loop ==
    /\ pc = "loop"
    /\ feature_maps # << >>
    /\ self' = [self EXCEPT !.curr_stage = @ + 1]
    /\ call_layer_warp(Head(feature_maps), layer_warp([self EXCEPT !.curr_stage = @ + 1], b, res, Head(feature_maps)))
    /\ UNCHANGED <<args, input>>

\* the classification head: global average pool, then fc
call_head(pool) ==
    finish([exc |-> "none", kind |-> "fc", items |-> << >>, out |-> Variable(pool.b.next_id, CHOOSE n \in self.num_classes : TRUE, 1)],
           [pool.b EXCEPT !.next_id = @ + 1], stage_log, stop_gradient)

\* after the loop: the classification head, or the named endpoints
__call__return ==
    /\ pc = "loop"
    /\ feature_maps = << >>
    /\ IF self.num_classes # {}
       THEN call_head([b |-> [b EXCEPT !.next_id = @ + 1], out |-> Variable(b.next_id, res.ch, 1)])
       ELSE finish([exc |-> "none", kind |-> "dict",
                    items |-> OrderedDict([idx \in 1..Len(res_endpoints) |-> [key |-> res_sum(self.feature_maps[idx]), feat |-> res_endpoints[idx]]]),
                    out |-> NotAVariable], b, stage_log, stop_gradient)
    /\ UNCHANGED <<args, input, self, res, feature_maps, res_endpoints>>

\* ------------------------------------------------------------- inputs
LayersArgs == {18, 20, 34, 50, 101, 152, 200}

VariantArgs == {"a", "b", "c", "d", "e"}

FreezeAtArgs == -1..6

NormTypeArgs == {"bn", "sync_bn", "affine_channel", "gn"}

LrMultListArgs == { <<1, 2, 3, 4, 5>>, <<10, 10, 10, 10, 10>>, <<1, 2, 3, 4>>, <<1, 2, 3, 4, 5, 6>> }

FeatureMapsArgs == {IntArg(k) : k \in 1..6} \cup {ListArg(l) : l \in UNION {[1..n -> 1..6] : n \in 0..MaxFeatureMaps}}

StageListArgs == {S \in SUBSET {2, 3, 4, 5} : Cardinality(S) <= MaxAuxStages}

\* the base configuration of the families below: the defaults, with
\* pairwise distinct learning-rate multipliers
Base == [ResNetDefaults EXCEPT !.lr_mult_list = <<1, 2, 3, 4, 5>>]

BaseC5 == [ResNetDefaults EXCEPT !.cls = "ResNetC5", !.freeze_at = 2, !.norm_type = "affine_channel", !.freeze_norm = TRUE, !.feature_maps = ListArg(<<5>>)]

Image(size) == Variable(0, 3, size)

RoiFeature == Variable(0, 1024, 14)

\* depth and variant, on even and odd image sizes
ConfigsDepth == {[Base EXCEPT !.layers = l, !.variant = v] : l \in LayersArgs, v \in VariantArgs} \X {Image(64), Image(97)}

\* feature_maps, with and without the classification head, full and severed
ConfigsFeatureMaps ==
    ({[Base EXCEPT !.layers = l, !.feature_maps = f, !.num_classes = n] : l \in {18, 50}, f \in FeatureMapsArgs, n \in {{}, {10}}} \X {Image(64)})
    \cup ({[BaseC5 EXCEPT !.layers = l, !.feature_maps = f] : l \in {18, 50}, f \in FeatureMapsArgs} \X {RoiFeature})

\* freeze_at
ConfigsFreeze ==
    ({[Base EXCEPT !.freeze_at = z, !.feature_maps = ListArg(l)] : z \in FreezeAtArgs, l \in {<<2>>, <<5>>, <<3, 5>>, <<2, 3, 4, 5>>}} \X {Image(64)})
    \cup ({[BaseC5 EXCEPT !.freeze_at = z, !.feature_maps = ListArg(l)] : z \in FreezeAtArgs, l \in {<<2>>, <<5>>, <<3, 5>>}} \X {RoiFeature})

\* normalization policy and learning-rate multipliers
ConfigsNorm ==
    ({[Base EXCEPT !.layers = l, !.norm_type = t, !.freeze_norm = z, !.lr_mult_list = m, !.feature_maps = ListArg(<<2, 3>>)] : l \in {18, 50}, t \in NormTypeArgs, z \in BOOLEAN, m \in LrMultListArgs} \X {Image(64)})
    \cup ({[BaseC5 EXCEPT !.norm_type = t, !.freeze_norm = z] : t \in NormTypeArgs, z \in BOOLEAN} \X {RoiFeature})

\* auxiliary blocks: deformable conv, global context, non-local
ConfigsAux ==
    ({[Base EXCEPT !.layers = l, !.dcn_v2_stages = S] : l \in LayersArgs, S \in StageListArgs}
     \cup {[Base EXCEPT !.layers = l, !.gcb_stages = S] : l \in LayersArgs, S \in StageListArgs}
     \cup {[Base EXCEPT !.layers = l, !.nonlocal_stages = S] : l \in LayersArgs, S \in StageListArgs}
     \cup {[Base EXCEPT !.layers = l, !.dcn_v2_stages = S, !.gcb_stages = S, !.nonlocal_stages = S] : l \in LayersArgs, S \in StageListArgs}
     \cup {[Base EXCEPT !.layers = l, !.feature_maps = IntArg(k), !.dcn_v2_stages = S] : l \in {18, 50}, k \in 1..5, S \in StageListArgs}
     \cup {[Base EXCEPT !.layers = l, !.feature_maps = IntArg(k), !.gcb_stages = S] : l \in {18, 50}, k \in 1..5, S \in StageListArgs})
    \X {Image(64)}

\* an input that is no Variable
ConfigsInput == {Base, BaseC5} \X {NotAVariable}

Configs == ConfigsDepth \cup ConfigsFeatureMaps \cup ConfigsFreeze \cup ConfigsNorm \cup ConfigsAux \cup ConfigsInput

\* ------------------------------------------------------ specification
Init ==
    /\ \E c \in Configs : args = c[1] /\ input = c[2]
    /\ self = << >>
    /\ pc = "new"
    /\ ncalls = 0
    /\ res = NotAVariable
    /\ feature_maps = << >>
    /\ res_endpoints = << >>
    /\ b = NewProgram
    /\ stop_gradient = {}
    /\ stage_log = << >>
    /\ ret = NoCall
    /\ first = NoOutcome

Next == ResNet__init__ \/ ResNetC5__init__ \/ __call__ \/ __call__loop \/ __call__return

Spec == Init /\ [][Next]_vars

\* =============================================================== claims
\* the object exists: the constructor returned normally
Constructed == pc \notin {"new", "init_failed"}

\* a call has ended and control is back at the caller
CallEnded == pc = "idle" /\ ncalls >= 1

CeilDiv(n, d) == (n + d - 1) \div d

\* ------------------------------------------------------------------ C1
\* C1: calling __call__ a second time on the same object with the same
\* input succeeds and gives the result of the first call: the same layers
\* with the same learning rates, the same blocks, the same stage outputs
\* and frozen flags, the same named outputs.
C1_SecondCallSameResult ==
    (pc = "idle" /\ ncalls >= 2 /\ first.ret.exc = "none")
        => Outcome(ret, b, stage_log, stop_gradient) = first

\* ------------------------------------------------------------------ C2
C2_Name == (1 :> "res1_sum") @@ (2 :> "res2_sum") @@ (3 :> "res3_sum") @@ (4 :> "res4_sum") @@ (5 :> "res5_sum")

\* C2: with num_classes None, the returned mapping has for every stage k
\* of feature_maps an entry named res<k>_sum holding the tensor layer_warp
\* returned for stage k, and no entry carries the name of another stage
\* than the one that produced its tensor.
C2_EndpointsNamedByStage ==
    (CallEnded /\ ret.exc = "none" /\ ret.kind = "dict")
        => /\ \A k \in set(self.feature_maps) :
                \E j \in DOMAIN ret.items :
                    /\ ret.items[j].key = C2_Name[k]
                    /\ \E e \in DOMAIN stage_log : stage_log[e].stage = k /\ stage_log[e].out = ret.items[j].feat
           /\ \A j \in DOMAIN ret.items :
                \A e \in DOMAIN stage_log :
                    stage_log[e].out = ret.items[j].feat => ret.items[j].key = C2_Name[stage_log[e].stage]

\* ------------------------------------------------------------------ C3
\* the configurations the claim says __init__ accepts
C3_Acceptable ==
    /\ args.layers \in {18, 34, 50, 101, 152, 200}
    /\ args.variant \in {"a", "b", "c", "d"}
    /\ args.freeze_at \in 0..5
    /\ (args.feature_maps.isInt \/ args.feature_maps.list # << >>)
    /\ args.norm_type \in {"bn", "sync_bn", "affine_channel"}
    /\ Len(args.lr_mult_list) = 5
    /\ (args.layers < 50 => args.nonlocal_stages = {})

C3_InitDecides ==
    /\ pc # "new" => (Constructed <=> C3_Acceptable)
    /\ pc = "init_failed" => DOMAIN self = {}
    /\ Constructed => DOMAIN self # {}

\* the stages a call of a ResNet object builds with layer_warp
C3_StagesBuilt == 2..max(set(self.feature_maps))

\* C3 as claimed: __init__ accepts exactly the listed configurations,
\* rejects the others before any field is set, and every accepted
\* configuration is then built by __call__ without an assertion failure.
C3_AcceptedThenBuilt ==
    /\ C3_InitDecides
    /\ (ncalls >= 1 /\ input.isVar) => first.ret.exc # "AssertionError"

\* C3 as amended: __init__ accepts exactly the listed configurations and
\* rejects the others before any field is set; the first __call__ of an
\* accepted ResNet on a Variable fails an assertion exactly when
\* feature_maps holds an index outside 1..5, or layers < 50 and a stage
\* in 2..max(feature_maps) is listed in dcn_v2_stages or gcb_stages.
C3_AcceptedBuiltUnlessLateAssert ==
    /\ C3_InitDecides
    /\ (ncalls >= 1 /\ input.isVar /\ args.cls = "ResNet")
        => (first.ret.exc = "AssertionError"
              <=> \/ ~(set(self.feature_maps) \subseteq 1..5)
                  \/ /\ self.layers < 50
                     /\ \E s \in C3_StagesBuilt : s \in self.dcn_v2_stages \cup self.gcb_stages)

\* an accepted ResNet-18 with a deformable stage: the build stops in basicblock
C3_Witness ==
    /\ CallEnded
    /\ args.cls = "ResNet"
    /\ input.isVar
    /\ self.layers = 18
    /\ self.dcn_v2_stages # {}
    /\ first.ret.exc = "AssertionError"
    /\ first.convs # << >>

\* ------------------------------------------------------------------ C4
C4_Blocks == (18 :> <<2, 2, 2, 2>>) @@ (34 :> <<3, 4, 6, 3>>) @@ (50 :> <<3, 4, 6, 3>>) @@ (101 :> <<3, 4, 23, 3>>) @@ (152 :> <<3, 8, 36, 3>>) @@ (200 :> <<3, 12, 48, 3>>)

C4_Width == (2 :> 64) @@ (3 :> 128) @@ (4 :> 256) @@ (5 :> 512)

\* C4: every layer_warp(s) that returns has built exactly the scheduled
\* number of blocks for the depth, numbered from 0, all basic blocks for
\* 18 and 34 and bottlenecks otherwise, of base width 64/128/256/512, and
\* the stride is 2 on block 0 of stages 3, 4, 5 and 1 everywhere else.
C4_StageSchedule ==
    \A e \in DOMAIN stage_log :
        (stage_log[e].stage >= 2 /\ stage_log[e].err = "none")
            => LET s == stage_log[e].stage
                   lo == stage_log[e].first_block
                   hi == stage_log[e].last_block
               IN  /\ hi - lo + 1 = C4_Blocks[self.layers][s - 1]
                   /\ \A j \in lo..hi :
                        /\ b.blocks[j].stage = s
                        /\ b.blocks[j].index = j - lo
                        /\ b.blocks[j].kind = (IF self.layers \in {18, 34} THEN "basicblock" ELSE "bottleneck")
                        /\ b.blocks[j].num_filters = C4_Width[s]
                        /\ b.blocks[j].stride = (IF b.blocks[j].index = 0 /\ s \in {3, 4, 5} THEN 2 ELSE 1)

\* ResNet-200 has built its 48-block stage 4
C4_Witness ==
    /\ Constructed
    /\ self.layers = 200
    /\ \E e \in DOMAIN stage_log :
        /\ stage_log[e].stage = 4
        /\ stage_log[e].err = "none"
        /\ stage_log[e].last_block - stage_log[e].first_block + 1 = 48
        /\ b.blocks[stage_log[e].first_block].stride = 2

\* ------------------------------------------------------------------ C5
\* C5: after __call__ returns, the output of every built stage k (the
\* stem is stage 1) has stop_gradient set exactly when k <= freeze_at.
C5_FrozenUpToFreezeAt ==
    (CallEnded /\ ret.exc = "none")
        => \A e \in DOMAIN stage_log :
              (stage_log[e].out.id \in stop_gradient) <=> (stage_log[e].stage <= self.freeze_at)

\* ------------------------------------------------------------------ C6
\* C6: in every block the build emits layers for, a deformable conv is
\* used for the 3x3 convolution of the residual branch (and for no other
\* conv) exactly when the stage is in dcn_v2_stages, and a GC block is
\* applied to the residual branch exactly when the stage is in gcb_stages.
C6_DcnAndGcbAtListedStages ==
    Constructed
        => /\ \A k \in DOMAIN b.convs :
                b.convs[k].dcn_v2 <=> /\ b.convs[k].stage \in self.dcn_v2_stages
                                      /\ b.convs[k].stage >= 2
                                      /\ b.convs[k].filter_size = 3
                                      /\ b.convs[k].role # "branch1"
           /\ \A j \in DOMAIN b.blocks :
                b.blocks[j].err # "AssertionError"
                    => (b.blocks[j].gcb_applied <=> b.blocks[j].stage \in self.gcb_stages)

\* ------------------------------------------------------------------ C7
\* C7: with freeze_norm every scale and offset has learning rate 0 and
\* stop_gradient set, and batch norm uses global statistics; without it
\* no scale or offset has stop_gradient set and their learning rate is
\* the multiplier of the stage the layer belongs to.
C7_FreezeNorm ==
    Constructed
        => \A k \in DOMAIN b.convs :
              LET c == b.convs[k]
              IN  IF self.freeze_norm
                  THEN /\ c.scale_lr = 0 /\ c.offset_lr = 0
                       /\ c.scale_stop_gradient /\ c.offset_stop_gradient
                       /\ (c.norm_type \in {"bn", "sync_bn"} => c.use_global_stats)
                  ELSE /\ ~c.scale_stop_gradient /\ ~c.offset_stop_gradient
                       /\ c.scale_lr = self.lr_mult_list[c.stage]
                       /\ c.offset_lr = self.lr_mult_list[c.stage]

\* ------------------------------------------------------------------ C8
\* C8: every convolution weight, and every scale and offset when
\* freeze_norm is off, made while building the stem has learning rate
\* lr_mult_list[0] and while building stage k has lr_mult_list[k-1],
\* deformable or not, and the index used stays in 0..4.
C8_LrMultPerStage ==
    Constructed
        => /\ b.err # "IndexError"
           /\ \A k \in DOMAIN b.convs :
                LET c == b.convs[k]
                IN  /\ c.lr_index \in 0..4
                    /\ c.weight_lr = self.lr_mult_list[c.stage]
                    /\ ~self.freeze_norm => (c.scale_lr = self.lr_mult_list[c.stage] /\ c.offset_lr = self.lr_mult_list[c.stage])

\* ------------------------------------------------------------------ C9
C9_Mod == (50 :> 2) @@ (101 :> 5) @@ (152 :> 8) @@ (200 :> 12)

\* C9: a non-local block follows block i of stage s exactly when s is in
\* nonlocal_stages and i mod m = m - 1, m being the depth's modulus for
\* stage 4 and 2 for the other stages.
C9_NonlocalPlacement ==
    Constructed
        => \A j \in DOMAIN b.blocks :
              b.blocks[j].err = "none"
                  => (b.blocks[j].nonlocal
                        <=> /\ b.blocks[j].stage \in self.nonlocal_stages
                            /\ LET m == IF b.blocks[j].stage = 4 THEN C9_Mod[self.layers] ELSE 2
                               IN  b.blocks[j].index % m = m - 1)

\* ----------------------------------------------------------------- C10
\* C10: in every block built, the shortcut and the residual entering the
\* add have the same channel count (num_filters for a basic block,
\* 4 * num_filters for a bottleneck) and the same spatial extent, the
\* block input down-sampled by the block's stride; the shortcut is the
\* block input itself exactly when the input has that channel count, the
\* stride is 1, and not (layers < 50 and is_first).
C10_ShortcutMatchesResidual ==
    Constructed
        => \A j \in DOMAIN b.blocks :
              b.blocks[j].err = "none"
                  => LET blk == b.blocks[j]
                         ch == IF blk.kind = "basicblock" THEN blk.num_filters ELSE 4 * blk.num_filters
                     IN  /\ blk.short.ch = ch
                         /\ blk.residual.ch = ch
                         /\ blk.short.size = blk.residual.size
                         /\ blk.residual.size = CeilDiv(blk.input.size, blk.stride)
                         /\ (blk.short.id = blk.input.id)
                              <=> (blk.input.ch = ch /\ blk.stride = 1 /\ ~(self.layers < 50 /\ blk.is_first))

\* variant d on an odd extent: a stride-2 block whose shortcut is pooled
C10_Witness ==
    /\ Constructed
    /\ self.variant = "d"
    /\ \E j \in DOMAIN b.blocks :
        /\ b.blocks[j].err = "none"
        /\ b.blocks[j].stride = 2
        /\ b.blocks[j].input.size % 2 = 1
        /\ b.blocks[j].short.id # b.blocks[j].input.id
        /\ b.blocks[j].kind = "bottleneck"

====
